---- MODULE Spec2Model ----
(***************************************************************************)
(* A model of augeas' src/internal.c: pathjoin, fread_file_lim/read_file,  *)
(* escape/unescape, format_pos/print_pos and the memstream helpers.        *)
(*                                                                         *)
(* A C string is a sequence of byte values 1..255; its terminating NUL is  *)
(* implicit (CharAt reads it as 0 at index strlen).  A heap buffer is a    *)
(* sequence of bytes indexed from 0 in the code and from 1 here.           *)
(***************************************************************************)
EXTENDS Integers, Sequences, FiniteSets, TLC

VARIABLES
    pc,          \* position of the running call
    charSigned,  \* the build: TRUE when plain char is signed (x86), FALSE when unsigned (ARM)
    text,        \* escape/unescape/format_pos: the caller's string
    cnt,         \* escape/unescape: the cnt/len argument
    esc,         \* escape: the buffer it returned
    unesc,       \* unescape: the buffer it returned
    pos,         \* format_pos: the offset argument
    fmt,         \* format_pos: what it returned
    out,         \* print_pos: what was written to the stream
    path,        \* pathjoin: the caller's *path
    path0,       \* pathjoin: *path as it was when pathjoin was called
    segs,        \* pathjoin: the variable arguments, nseg of them
    iseg,        \* pathjoin: the loop counter i
    ret,         \* pathjoin: the value returned
    allocFail,   \* pathjoin: the allocator refused a request
    heapLive,    \* pathjoin: blocks allocated and not yet freed
    caller,      \* fread_file_lim: who called it
    fileLen,     \* the length of the stream's content
    fpos,        \* the stream's read position
    ferr,        \* the stream's error indicator, ferror(stream)
    max_len,     \* fread_file_lim: its max_len argument
    BUFSIZ,      \* the build's stdio BUFSIZ
    buf,         \* fread_file_lim: buf, null or a block of alloc bytes
    alloc,       \* fread_file_lim: alloc
    size,        \* fread_file_lim: size
    sizeBefore,  \* fread_file_lim: size as the last fread was called
    requested,   \* fread_file_lim: requested of the last fread
    count,       \* fread_file_lim: count of the last fread
    flres,       \* fread_file_lim: its result and *length
    rfres,       \* read_file: its result
    ms,          \* the struct memstream
    HAVE_OPEN_MEMSTREAM, \* the build: open_memstream is available
    written,     \* bytes written to ms.stream
    msret        \* what init_memstream, then close_memstream, returned

strVars == <<text, cnt, esc, unesc>>
posVars == <<pos, fmt, out>>
pathVars == <<path, path0, segs, iseg, ret, allocFail, heapLive>>
ioVars == <<caller, fileLen, fpos, ferr, max_len, BUFSIZ, buf, alloc, size, sizeBefore,
            requested, count, flres, rfres, ms, HAVE_OPEN_MEMSTREAM, written, msret>>
vars == <<pc, charSigned, strVars, posVars, pathVars, ioVars>>

\* A null pointer, and a result no call has produced yet.
NullPtr == [ptr |-> "NULL"]

NoBuf == [ptr |-> "idle"]

\* The state of the functions a specification does not call.
IdlePath ==
    /\ path = NullPtr /\ path0 = NullPtr /\ segs = <<>> /\ iseg = 0
    /\ ret = 0 /\ allocFail = FALSE /\ heapLive = 0

IdleStr ==
    /\ text = <<>> /\ cnt = 0 /\ esc = NoBuf /\ unesc = NoBuf

IdlePos ==
    /\ pos = 0 /\ fmt = NoBuf /\ out = <<>>

IdleMs ==
    /\ ms = [stream |-> "none", buf |-> NullPtr, size |-> 0]
    /\ HAVE_OPEN_MEMSTREAM = FALSE /\ written = 0 /\ msret = 0

IdleFread ==
    /\ fileLen = 0 /\ fpos = 0 /\ ferr = FALSE /\ max_len = 0 /\ BUFSIZ = 1
    /\ buf = NullPtr /\ alloc = 0 /\ size = 0 /\ sizeBefore = 0
    /\ requested = 0 /\ count = 0 /\ flres = NoBuf /\ rfres = NoBuf

IdleIO == caller = "none" /\ IdleFread /\ IdleMs

(***************************************************************************)
(* Bounds of the model.                                                    *)
(***************************************************************************)
MaxStrLen == 3
MaxSegs == 3
MaxSmallFile == 2
MaxDelta == 1
MaxBUFSIZ == 3
MaxMaxLen == 4
MaxStream == 6
MaxWritten == 3
MaxLeftRun == 29
MaxRightRun == 7

(***************************************************************************)
(* C strings.                                                              *)
(***************************************************************************)
NULL == -1

Min(a, b) == IF a < b THEN a ELSE b

strlen(s) == Len(s)

\* s[i] in C, for 0 <= i <= strlen(s): the terminator reads as 0.
CharAt(s, i) == IF i < Len(s) THEN s[i + 1] ELSE 0

\* strchr(s, c) as an index into s, NULL when c does not occur.  As in C the
\* terminating NUL is part of the string: strchr(s, 0) finds it at strlen(s).
strchr(s, c) ==
    IF c = 0 THEN Len(s)
    ELSE IF \E k \in 1..Len(s) : s[k] = c
         THEN (CHOOSE k \in 1..Len(s) : s[k] = c /\ \A j \in 1..(k - 1) : s[j] # c) - 1
         ELSE NULL

\* The offset of the first NUL of a buffer at or after offset i, its length
\* when there is none.
RECURSIVE NulFrom(_, _)
NulFrom(mem, i) ==
    IF i >= Len(mem) \/ mem[i + 1] = 0 THEN i ELSE NulFrom(mem, i + 1)

\* The C string a buffer holds: its bytes before the first NUL.
CStr(mem) == SubSeq(mem, 1, NulFrom(mem, 0))

\* A store of bytes at offset off <= Len(mem) of a buffer.  A store past the
\* end of the buffer lands in the memory behind it: the sequence grows, and
\* the caller compares its length with the allocation.
Poke(mem, off, bytes) ==
    SubSeq(mem, 1, off) \o bytes \o SubSeq(mem, off + Len(bytes) + 1, Len(mem))

\* The value of text[i] as the build's plain char.
SChar(b) == IF charSigned /\ b >= 128 THEN b - 256 ELSE b

\* isprint in the C locale; a negative argument is no printable character.
isprint(c) == c >= 32 /\ c <= 126

(***************************************************************************)
(* The escape table.                                                       *)
(***************************************************************************)
\* "\"\a\b\t\n\v\f\r\\"
escape_chars == <<34, 7, 8, 9, 10, 11, 12, 13, 92>>
\* "\"abtnvfr\\"
escape_names == <<34, 97, 98, 116, 110, 118, 102, 114, 92>>

(***************************************************************************)
(* unescape                                                                *)
(***************************************************************************)
\* UnescapeMatches with a fault: the backslash is missing from the letters
\* it accepts after a backslash.
UnescapeMatchesNoBackslash(s, i) ==
    /\ CharAt(s, i) = 92
    /\ CharAt(s, i + 1) # 92
    /\ strchr(escape_names, CharAt(s, i + 1)) # NULL

\* The loop condition shared by both passes of unescape.
UnescapeMatches(s, i) ==
    CharAt(s, i) = 92 /\ strchr(escape_names, CharAt(s, i + 1)) # NULL

\* First pass: one output byte per iteration, an escape skips its letter.
RECURSIVE UnescapeSize(_, _, _)
UnescapeSize(s, len, i) ==
    IF i >= len THEN 0
    ELSE IF UnescapeMatches(s, i) THEN 1 + UnescapeSize(s, len, i + 2)
    ELSE 1 + UnescapeSize(s, len, i + 1)

\* Second pass: the stores through t.
RECURSIVE UnescapeFill(_, _, _, _, _)
UnescapeFill(s, len, i, mem, t) ==
    IF i >= len THEN mem
    ELSE IF UnescapeMatches(s, i)
         THEN UnescapeFill(s, len, i + 2,
                  Poke(mem, t, <<CharAt(escape_chars, strchr(escape_names, CharAt(s, i + 1)))>>),
                  t + 1)
         ELSE UnescapeFill(s, len, i + 1, Poke(mem, t, <<CharAt(s, i)>>), t + 1)

\* unescape(s, len).  ok: whether CALLOC returned a buffer; its result is not
\* tested, so the second pass stores through a null pointer when it did not.
unescape(s, len0, ok) ==
    LET len == IF len0 < 0 \/ len0 > strlen(s) THEN strlen(s) ELSE len0
        usize == UnescapeSize(s, len, 0)
    IN IF ok
       THEN [ptr |-> "heap", alloc |-> usize + 1,
             mem |-> UnescapeFill(s, len, 0, [k \in 1..(usize + 1) |-> 0], 0),
             nullwrite |-> FALSE]
       ELSE [ptr |-> "NULL", alloc |-> 0, mem |-> <<>>, nullwrite |-> len > 0]

(***************************************************************************)
(* escape                                                                  *)
(***************************************************************************)
RECURSIVE OctDigits(_)
OctDigits(n) == IF n < 8 THEN <<48 + n>> ELSE Append(OctDigits(n \div 8), 48 + (n % 8))

ZeroPad3(d) == IF Len(d) >= 3 THEN d ELSE [k \in 1..(3 - Len(d)) |-> 48] \o d

\* sprintf's "%03o" of an int: the argument is read as an unsigned int, so a
\* negative c prints as 2^32 + c = (2^23 - 1) * 2^9 + (512 + c).
Oct03(c) ==
    IF c >= 0 THEN ZeroPad3(OctDigits(c))
    ELSE OctDigits(8388607) \o ZeroPad3(OctDigits(512 + c))

\* The test of the first branch in both passes of escape.
EscapeInTable(c) == c # 0 /\ strchr(escape_chars, c) # NULL

\* First pass: what one byte adds to len.
EscapeIncr(c) ==
    IF EscapeInTable(c) THEN 2
    ELSE IF ~isprint(c) THEN 4
    ELSE 1

\* Second pass: the bytes one byte stores at e, and how far e advances.
EscapeStore(c) ==
    IF EscapeInTable(c)
    THEN [bytes |-> <<92, CharAt(escape_names, strchr(escape_chars, c))>>, adv |-> 2]
    ELSE IF ~isprint(c)
    THEN [bytes |-> <<92>> \o Oct03(c) \o <<0>>, adv |-> 4]
    ELSE [bytes |-> <<c>>, adv |-> 1]

RECURSIVE EscapeCount(_, _, _)
EscapeCount(t, n, i) ==
    IF i >= n THEN 0 ELSE EscapeIncr(SChar(CharAt(t, i))) + EscapeCount(t, n, i + 1)

RECURSIVE EscapeFill(_, _, _, _, _)
EscapeFill(t, n, i, mem, e) ==
    IF i >= n THEN [mem |-> mem, e |-> e]
    ELSE LET w == EscapeStore(SChar(CharAt(t, i)))
         IN EscapeFill(t, n, i + 1, Poke(mem, e, w.bytes), e + w.adv)

\* escape(t, cnt0).  ok: whether CALLOC returned a buffer; its result is not
\* tested, so the second pass stores through a null pointer when it did not.
\* len is the first pass' count, e the final offset of the second pass, and
\* mem is longer than alloc when a store went past the allocation.
escape(t, cnt0, ok) ==
    LET n == IF cnt0 < 0 \/ cnt0 > strlen(t) THEN strlen(t) ELSE cnt0
        len == EscapeCount(t, n, 0)
    IN IF ok
       THEN LET f == EscapeFill(t, n, 0, [k \in 1..(len + 1) |-> 0], 0)
            IN [ptr |-> "heap", alloc |-> len + 1, mem |-> f.mem, len |-> len,
                e |-> f.e, nullwrite |-> FALSE]
       ELSE [ptr |-> "NULL", alloc |-> 0, mem |-> <<>>, len |-> len, e |-> 0,
             nullwrite |-> n > 0]

(***************************************************************************)
(* Calls of escape and unescape on every string up to MaxStrLen over an    *)
(* alphabet with one byte of each kind.                                    *)
(***************************************************************************)
\* 'x' (no escape letter), 'n' (an escape letter), backslash, newline,
\* SOH (not printable, not in the table), 0x80 (negative as a signed char)
StrAlphabet == {120, 110, 92, 10, 1, 128}

RECURSIVE StringsUpTo(_, _)
StringsUpTo(A, n) ==
    IF n = 0 THEN {<<>>}
    ELSE LET S == StringsUpTo(A, n - 1)
         IN S \cup {Append(s, c) : s \in {x \in S : Len(x) = n - 1}, c \in A}

InitStr ==
    /\ pc = "start"
    /\ charSigned \in BOOLEAN
    /\ text \in StringsUpTo(StrAlphabet, MaxStrLen)
    /\ cnt \in -1..(Len(text) + 1)
    /\ esc = NoBuf
    /\ unesc = NoBuf
    /\ IdlePos /\ IdlePath /\ IdleIO

CallEscape ==
    /\ pc = "start"
    /\ \E ok \in BOOLEAN : esc' = escape(text, cnt, ok)
    /\ pc' = "escaped"
    /\ UNCHANGED <<charSigned, text, cnt, unesc, posVars, pathVars, ioVars>>

CallUnescape ==
    /\ pc = "start"
    /\ \E ok \in BOOLEAN : unesc' = unescape(text, cnt, ok)
    /\ pc' = "unescaped"
    /\ UNCHANGED <<charSigned, text, cnt, esc, posVars, pathVars, ioVars>>

\* unescape(escape(text, cnt), -1), when escape returned a string
CallUnescapeOfEscaped ==
    /\ pc = "escaped"
    /\ esc.ptr = "heap"
    /\ \E ok \in BOOLEAN : unesc' = unescape(CStr(esc.mem), -1, ok)
    /\ pc' = "roundtrip"
    /\ UNCHANGED <<charSigned, text, cnt, esc, posVars, pathVars, ioVars>>

NextStr == CallEscape \/ CallUnescape \/ CallUnescapeOfEscaped

SpecStr == InitStr /\ [][NextStr]_vars

(***************************************************************************)
(* pathjoin                                                                *)
(***************************************************************************)
SEP == 47

\* A null segment argument: the one-byte sequence no C string can be.
NullSeg == <<0>>

\* Bytes of a fresh or grown block that nothing has stored to yet.
Junk == 255

\* A caller's string in a block of exactly its size.
HeapStr(str) == [ptr |-> "heap", alloc |-> Len(str) + 1, mem |-> str \o <<0>>]

strcat(mem, src) == Poke(mem, strlen(CStr(mem)), src \o <<0>>)

strcpy(mem, src) == Poke(mem, 0, src \o <<0>>)

\* FREE(ptr): the block is freed and the pointer set to null.
FREE(p) == NullPtr

\* REALLOC_N(p, n) succeeding: the block keeps its bytes and is n bytes long.
REALLOC_N(p, n) ==
    [ptr |-> "heap", alloc |-> n,
     mem |-> [k \in 1..n |-> IF k <= Len(p.mem) THEN p.mem[k] ELSE Junk]]

\* seg = va_arg(...); if (seg == NULL) seg = "()";
PathjoinSeg(arg) == IF arg = NullSeg THEN <<40, 41>> ELSE arg

\* The else branch: *path = malloc(len); strcpy(*path, seg);
PathjoinFirst(seg) ==
    LET len == strlen(seg) + 1
    IN [ptr |-> "heap", alloc |-> len, mem |-> strcpy([k \in 1..len |-> Junk], seg)]

\* PathjoinAppend with a fault: the leading separator of the segment is kept.
PathjoinAppendKeepsSep(p, seg) ==
    LET cur == CStr(p.mem)
        m1 == IF strlen(cur) = 0 \/ CharAt(cur, strlen(cur) - 1) # SEP
              THEN strcat(p.mem, <<SEP>>) ELSE p.mem
    IN [p EXCEPT !.mem = strcat(m1, seg)]

\* After a successful REALLOC_N of p: the separator, then the segment
PathjoinAppend(p, seg) ==
    LET cur == CStr(p.mem)
        m1 == IF strlen(cur) = 0 \/ CharAt(cur, strlen(cur) - 1) # SEP
              THEN strcat(p.mem, <<SEP>>) ELSE p.mem
        seg1 == IF CharAt(seg, 0) = SEP THEN Tail(seg) ELSE seg
    IN [p EXCEPT !.mem = strcat(m1, seg1)]

\* PathjoinReallocFailed with a fault: return -1 without FREE(*path).
PathjoinReallocFailedKeeps(p) == p

\* What a refused REALLOC_N leaves in *path
PathjoinReallocFailed(p) == FREE(p)

\* One iteration of the for loop; ok is the allocator's answer.
PathjoinIter(ok) ==
    /\ pc = "loop"
    /\ iseg < Len(segs)
    /\ LET seg == PathjoinSeg(segs[iseg + 1])
           len == strlen(seg) + 1
       IN IF path.ptr # "NULL"
          THEN IF ok
               THEN /\ path' = PathjoinAppend(REALLOC_N(path, len + strlen(CStr(path.mem)) + 1), seg)
                    /\ iseg' = iseg + 1
                    /\ UNCHANGED <<pc, ret, allocFail, heapLive>>
               ELSE /\ path' = PathjoinReallocFailed(path)
                    /\ heapLive' = IF path'.ptr = "NULL" THEN heapLive - 1 ELSE heapLive
                    /\ ret' = -1
                    /\ pc' = "returned"
                    /\ allocFail' = TRUE
                    /\ UNCHANGED iseg
          ELSE IF ok
               THEN /\ path' = PathjoinFirst(seg)
                    /\ heapLive' = heapLive + 1
                    /\ iseg' = iseg + 1
                    /\ UNCHANGED <<pc, ret, allocFail>>
               ELSE /\ path' = NullPtr
                    /\ ret' = -1
                    /\ pc' = "returned"
                    /\ allocFail' = TRUE
                    /\ UNCHANGED <<iseg, heapLive>>
    /\ UNCHANGED <<charSigned, strVars, posVars, ioVars, path0, segs>>

PathjoinStep == \E ok \in BOOLEAN : PathjoinIter(ok)

\* The loop ran out of segments: return 0.
PathjoinReturn ==
    /\ pc = "loop"
    /\ iseg >= Len(segs)
    /\ ret' = 0
    /\ pc' = "returned"
    /\ UNCHANGED <<charSigned, strVars, posVars, ioVars, path, path0, segs, iseg, allocFail, heapLive>>

\* "a", "b", "c", "/", "a/", "/b", "//", "" and a null argument
PathSegments ==
    {NullSeg, <<>>, <<97>>, <<98>>, <<99>>, <<SEP>>, <<97, SEP>>, <<SEP, 98>>, <<SEP, SEP>>}

\* *path at the call: null, "", "a" or "a/"
PathStarts == {NullPtr, HeapStr(<<>>), HeapStr(<<97>>), HeapStr(<<97, SEP>>)}

RECURSIVE SeqsUpTo(_, _)
SeqsUpTo(S, n) ==
    IF n = 0 THEN {<<>>}
    ELSE LET R == SeqsUpTo(S, n - 1)
         IN R \cup {Append(r, x) : r \in {y \in R : Len(y) = n - 1}, x \in S}

InitPath ==
    /\ pc = "loop"
    /\ charSigned = FALSE
    /\ IdleStr /\ IdlePos /\ IdleIO
    /\ path0 \in PathStarts
    /\ path = path0
    /\ segs \in SeqsUpTo(PathSegments, MaxSegs)
    /\ iseg = 0
    /\ ret = 0
    /\ allocFail = FALSE
    /\ heapLive = IF path0.ptr = "NULL" THEN 0 ELSE 1

NextPath == PathjoinStep \/ PathjoinReturn

SpecPath == InitPath /\ [][NextPath]_vars

(***************************************************************************)
(* fread_file_lim and read_file                                            *)
(*                                                                         *)
(* A stream is its content's length, its read position and its error       *)
(* indicator; fread copies the bytes at the read position, so a buffer is  *)
(* the number of leading bytes of the stream it holds.                     *)
(***************************************************************************)
\* Cap file reads somwhat arbitrarily at 32 MB: 32*1024*1024
MAX_READ_LEN == 33554432

INT_MAX == 2147483647

\* glibc's BUFSIZ
StdioBUFSIZ == 8192

\* The allocation after the growth step of an iteration.
GrownAlloc(a, sz) ==
    IF sz + BUFSIZ + 1 > a
    THEN LET a1 == a + (a \div 2)
         IN IF a1 < sz + BUFSIZ + 1 THEN sz + BUFSIZ + 1 ELSE a1
    ELSE a

\* Requested with a fault: the max_len cap is left out.
RequestedUncapped(sz, max, a) == a - sz - 1

\* requested = MIN (size < max_len ? max_len - size : 0, alloc - size - 1)
Requested(sz, max, a) == Min(IF sz < max THEN max - sz ELSE 0, a - sz - 1)

\* What fread may return for a request of req bytes: everything asked for or
\* everything left when the stream works, less than asked for when it fails.
FreadOutcomes(req) ==
    LET avail == Min(req, fileLen - fpos)
    IN {[count |-> avail, err |-> FALSE]}
       \cup {[count |-> c, err |-> TRUE] : c \in {d \in {0, avail \div 2} : d < req}}

\* if (count != requested || requested == 0)
FreadLoopEnds(cnt0, req) == cnt0 # req \/ req = 0

\* One iteration of the for (;;) loop, to its return, its break or its end.
FreadIter ==
    /\ pc = "fl_loop"
    /\ LET grow == size + BUFSIZ + 1 > alloc
           a1 == GrownAlloc(alloc, size)
       IN \E ok \in (IF grow THEN BOOLEAN ELSE {TRUE}) :
          IF ~ok
          THEN \* realloc refused: break, free (buf), return NULL
               /\ alloc' = a1
               /\ buf' = NullPtr
               /\ flres' = [ptr |-> "NULL", why |-> "realloc"]
               /\ pc' = "fl_ret"
               /\ UNCHANGED <<fpos, ferr, size, sizeBefore, requested, count>>
          ELSE LET req == Requested(size, max_len, a1)
               IN \E r \in FreadOutcomes(req) :
                  /\ alloc' = a1
                  /\ requested' = req
                  /\ count' = r.count
                  /\ sizeBefore' = size
                  /\ size' = size + r.count
                  /\ fpos' = fpos + r.count
                  /\ ferr' = (ferr \/ r.err)
                  /\ IF FreadLoopEnds(r.count, req)
                     THEN IF ferr'
                          THEN /\ buf' = NullPtr
                               /\ flres' = [ptr |-> "NULL", why |-> "ferror"]
                               /\ pc' = "fl_ret"
                          ELSE \* buf[size] = '\0'; *length = size; return buf
                               /\ buf' = [ptr |-> "heap", alloc |-> a1]
                               /\ flres' = [ptr |-> "heap", alloc |-> a1, len |-> size', nul |-> size']
                               /\ pc' = "fl_ret"
                     ELSE /\ buf' = [ptr |-> "heap", alloc |-> a1]
                          /\ UNCHANGED <<flres, pc>>
    /\ UNCHANGED <<charSigned, strVars, posVars, pathVars, caller, fileLen, max_len, BUFSIZ,
                   rfres, ms, HAVE_OPEN_MEMSTREAM, written, msret>>

\* The locals of fread_file_lim as it is entered.
FreadEntry(max) ==
    /\ max_len' = max
    /\ buf' = NullPtr /\ alloc' = 0 /\ size' = 0
    /\ sizeBefore' = 0 /\ requested' = 0 /\ count' = 0
    /\ flres' = NoBuf

\* read_file to its call of fread_file_lim: fopen, which may fail.
ReadFileOpen ==
    /\ pc = "rf_open"
    /\ \E ok \in BOOLEAN :
          IF ok
          THEN /\ FreadEntry(MAX_READ_LEN)
               /\ pc' = "fl_loop"
               /\ UNCHANGED rfres
          ELSE /\ rfres' = NullPtr
               /\ pc' = "rf_done"
               /\ UNCHANGED <<max_len, buf, alloc, size, sizeBefore, requested, count, flres>>
    /\ UNCHANGED <<charSigned, strVars, posVars, pathVars, caller, fileLen, fpos, ferr, BUFSIZ,
                   ms, HAVE_OPEN_MEMSTREAM, written, msret>>

\* (int) len == len
FitsInt(len) == len <= INT_MAX

\* The test read_file makes of what fread_file_lim returned.
ReadFileAccepts(res) ==
    res.ptr # "NULL" /\ res.len <= MAX_READ_LEN /\ FitsInt(res.len)

\* read_file from the return of fread_file_lim: fclose and the test of len.
ReadFileFinish ==
    /\ pc = "fl_ret"
    /\ caller = "read_file"
    /\ rfres' = IF ReadFileAccepts(flres) THEN flres ELSE NullPtr
    /\ pc' = "rf_done"
    /\ UNCHANGED <<charSigned, strVars, posVars, pathVars, caller, fileLen, fpos, ferr, max_len,
                   BUFSIZ, buf, alloc, size, sizeBefore, requested, count, flres, ms,
                   HAVE_OPEN_MEMSTREAM, written, msret>>

(***************************************************************************)
(* init_memstream and close_memstream                                      *)
(***************************************************************************)
\* init_memstream: MEMZERO, then open_memstream or tmpfile, which may fail.
InitMemstream ==
    /\ pc = "ms_init"
    /\ \E ok \in BOOLEAN :
          /\ ms' = [stream |-> IF ok THEN "open" ELSE "NULL", buf |-> NullPtr, size |-> 0]
          /\ msret' = IF ok THEN 0 ELSE -1
          /\ pc' = IF ok THEN "ms_open" ELSE "ms_done"
    /\ UNCHANGED <<charSigned, strVars, posVars, pathVars, caller, fileLen, fpos, ferr, max_len,
                   BUFSIZ, buf, alloc, size, sizeBefore, requested, count, flres, rfres,
                   HAVE_OPEN_MEMSTREAM, written>>

\* The caller writes n bytes to ms.stream.
MsWrite ==
    /\ pc = "ms_open"
    /\ \E n \in 1..(MaxWritten - written) :
          /\ written' = written + n
          /\ fileLen' = written + n
          /\ fpos' = written + n
    /\ UNCHANGED <<pc, charSigned, strVars, posVars, pathVars, caller, ferr, max_len,
                   BUFSIZ, buf, alloc, size, sizeBefore, requested, count, flres, rfres, ms,
                   HAVE_OPEN_MEMSTREAM, msret>>

\* What the fclose at the end of close_memstream leaves, closed telling
\* whether fclose succeeded, for a handle whose buf and size are b and sz.
CloseMemstreamEnd(closed, b, sz) ==
    IF closed
    THEN [ms |-> [stream |-> "closed", buf |-> b, size |-> sz], ret |-> 0]
    ELSE [ms |-> [stream |-> "closed", buf |-> FREE(b), size |-> 0], ret |-> -1]

\* close_memstream where open_memstream exists: fclose stores the content's
\* address and length in ms->buf and ms->size.
CloseMemstreamNative ==
    /\ pc = "ms_open"
    /\ HAVE_OPEN_MEMSTREAM
    /\ \E closed \in BOOLEAN :
          LET e == CloseMemstreamEnd(closed, [ptr |-> "heap", alloc |-> written + 1,
                                              len |-> written, nul |-> written], written)
          IN ms' = e.ms /\ msret' = e.ret
    /\ pc' = "ms_done"
    /\ UNCHANGED <<charSigned, strVars, posVars, pathVars, caller, fileLen, fpos, ferr, max_len,
                   BUFSIZ, buf, alloc, size, sizeBefore, requested, count, flres, rfres,
                   HAVE_OPEN_MEMSTREAM, written>>

\* close_memstream on the temporary file, to its call of fread_file_lim
CloseMemstreamRewind ==
    /\ pc = "ms_open"
    /\ ~HAVE_OPEN_MEMSTREAM
    /\ fpos' = 0
    /\ ferr' = FALSE
    /\ FreadEntry(MAX_READ_LEN)
    /\ pc' = "fl_loop"
    /\ UNCHANGED <<charSigned, strVars, posVars, pathVars, caller, fileLen, BUFSIZ, rfres, ms,
                   HAVE_OPEN_MEMSTREAM, written, msret>>

\* close_memstream on the temporary file, from the return of fread_file_lim:
\* ms->buf is what it returned, ms->size is stored only when it succeeded.
CloseMemstreamFclose ==
    /\ pc = "fl_ret"
    /\ caller = "memstream"
    /\ \E closed \in BOOLEAN :
          LET e == CloseMemstreamEnd(closed,
                       IF flres.ptr = "NULL" THEN NullPtr ELSE flres,
                       IF flres.ptr = "NULL" THEN ms.size ELSE flres.len)
          IN ms' = e.ms /\ msret' = e.ret
    /\ pc' = "ms_done"
    /\ UNCHANGED <<charSigned, strVars, posVars, pathVars, caller, fileLen, fpos, ferr, max_len,
                   BUFSIZ, buf, alloc, size, sizeBefore, requested, count, flres, rfres,
                   HAVE_OPEN_MEMSTREAM, written>>

(***************************************************************************)
(* Calls of read_file on small files and files around the cap, of          *)
(* fread_file_lim on small streams with small caps, and of the memstream   *)
(* pair in both builds.                                                    *)
(***************************************************************************)
FileLens ==
    (0..MaxSmallFile) \cup ((MAX_READ_LEN - MaxDelta)..(MAX_READ_LEN + MaxDelta))

InitIO ==
    /\ charSigned = FALSE
    /\ IdleStr /\ IdlePos /\ IdlePath
    /\ caller \in {"read_file", "fread_file_lim", "memstream"}
    /\ fpos = 0 /\ ferr = FALSE
    /\ buf = NullPtr /\ alloc = 0 /\ size = 0 /\ sizeBefore = 0
    /\ requested = 0 /\ count = 0 /\ flres = NoBuf /\ rfres = NoBuf
    /\ IF caller = "read_file"
       THEN /\ pc = "rf_open"
            /\ fileLen \in FileLens
            /\ BUFSIZ \in (1..MaxBUFSIZ) \cup {StdioBUFSIZ}
            /\ max_len = 0
            /\ IdleMs
       ELSE IF caller = "fread_file_lim"
       THEN /\ pc = "fl_loop"
            /\ fileLen \in 0..MaxStream
            /\ BUFSIZ \in 1..MaxBUFSIZ
            /\ max_len \in 0..MaxMaxLen
            /\ IdleMs
       ELSE /\ pc = "ms_init"
            /\ fileLen = 0
            /\ BUFSIZ \in 1..MaxBUFSIZ
            /\ max_len = 0
            /\ HAVE_OPEN_MEMSTREAM \in BOOLEAN
            /\ ms = [stream |-> "none", buf |-> NullPtr, size |-> 0]
            /\ written = 0 /\ msret = 0

NextIO ==
    \/ FreadIter
    \/ ReadFileOpen
    \/ ReadFileFinish
    \/ InitMemstream
    \/ MsWrite
    \/ CloseMemstreamNative
    \/ CloseMemstreamRewind
    \/ CloseMemstreamFclose

SpecIO == InitIO /\ [][NextIO]_vars

(***************************************************************************)
(* format_pos and print_pos                                                *)
(***************************************************************************)
window == 28

\* text + k: the string that starts k bytes into text.
StrFrom(t, k) == SubSeq(t, k + 1, Len(t))

Spaces(n) == [k \in 1..n |-> 32]

\* printf's "%*s" of a one-character string: right-justified in w columns.
PadBefore(w, c) == Spaces(w - 1) \o <<c>>

\* printf's "%-*s" of a one-character string: left-justified in w columns.
PadAfter(w, c) == <<c>> \o Spaces(w - 1)

\* before = pos; if (before > window) before = window;
FormatBefore(p) == IF p > window THEN window ELSE p

\* The four templates of the asprintf, "\n" included.
FormatTemplate(left, right) ==
    LET llen == strlen(left)
        rlen == strlen(right)
        mid == left \o <<124, 61, 124>> \o right
    IN IF llen < window /\ rlen < window
       THEN PadBefore(window - llen, 60) \o mid \o PadAfter(window - rlen, 62) \o <<10>>
       ELSE IF llen < window
       THEN PadBefore(window - llen, 60) \o mid \o <<62, 10>>
       ELSE IF rlen < window
       THEN <<60>> \o mid \o PadAfter(window - rlen, 62) \o <<10>>
       ELSE <<60>> \o mid \o <<62, 10>>

\* The undefined behaviour a call of escape ran into, if any: a store through
\* the null pointer CALLOC returned, or a store past the end of its block.
EscapeUB(e) ==
    IF e.nullwrite THEN "nullwrite"
    ELSE IF e.ptr = "heap" /\ Len(e.mem) > e.alloc THEN "overflow"
    ELSE "none"

\* format_pos(t, p); okL, okR and okA tell whether the CALLOC of the left
\* escape, that of the right escape and the asprintf obtained their memory.
\* ub is the first undefined behaviour on the way, from the first byte read
\* at t + from; fail names the first request that was refused.
format_pos(t, p, okL, okR, okA) ==
    LET before == FormatBefore(p)
        from == p - before
        left == escape(StrFrom(t, from), before, okL)
        right == escape(StrFrom(t, p), window, okR)
        null(f, u) == [ptr |-> "NULL", str |-> <<>>, ub |-> u, fail |-> f, from |-> from]
    IN IF left.ptr = "NULL" THEN null("left", EscapeUB(left))
       ELSE IF right.ptr = "NULL"
       THEN null("right", IF EscapeUB(left) # "none" THEN EscapeUB(left) ELSE EscapeUB(right))
       ELSE LET ub == IF EscapeUB(left) # "none" THEN EscapeUB(left) ELSE EscapeUB(right)
            IN IF ~okA THEN null("asprintf", ub)
               ELSE [ptr |-> "heap", str |-> FormatTemplate(CStr(left.mem), CStr(right.mem)),
                     ub |-> ub, fail |-> "none", from |-> from]

\* The requests for memory of one call of format_pos, at most one of them
\* refused: a refused request ends the call.
FormatPosRuns ==
    {[okL |-> f # "left", okR |-> f # "right", okA |-> f # "asprintf"] :
        f \in {"none", "left", "right", "asprintf"}}

\* A call of format_pos.  Undefined behaviour either goes unnoticed or ends
\* the process.
CallFormatPos ==
    /\ pc = "fp_start"
    /\ \E r \in FormatPosRuns :
          /\ fmt' = format_pos(text, pos, r.okL, r.okR, r.okA)
          /\ \E crash \in (IF fmt'.ub # "none" THEN BOOLEAN ELSE {FALSE}) :
                pc' = IF crash THEN "fp_crashed" ELSE "fp_returned"
    /\ UNCHANGED <<charSigned, text, cnt, esc, unesc, pos, out, pathVars, ioVars>>

\* A call of print_pos: format_pos, then fputs of what it returned.
CallPrintPos ==
    /\ pc = "fp_start"
    /\ \E r \in FormatPosRuns :
          /\ fmt' = format_pos(text, pos, r.okL, r.okR, r.okA)
          /\ \E crash \in (IF fmt'.ub # "none" THEN BOOLEAN ELSE {FALSE}) :
                /\ pc' = IF crash THEN "pp_crashed" ELSE "pp_returned"
                /\ out' = IF ~crash /\ fmt'.ptr # "NULL" THEN fmt'.str ELSE out
    /\ UNCHANGED <<charSigned, text, cnt, esc, unesc, pos, pathVars, ioVars>>

\* 'a', newline, 0x80 (four bytes where char is unsigned)
PosAlphabet == {97, 10, 128}

Run(c, n) == [k \in 1..n |-> c]

\* A run of up to MaxLeftRun equal bytes, then one of up to MaxRightRun, and
\* the offsets next to where the runs meet.
InitPos ==
    /\ pc = "fp_start"
    /\ charSigned \in BOOLEAN
    /\ \E c1, c2 \in PosAlphabet : \E n1 \in 0..MaxLeftRun, n2 \in 0..MaxRightRun :
          /\ text = Run(c1, n1) \o Run(c2, n2)
          /\ pos \in {p \in {n1 - 1, n1, n1 + 1} : p >= 0 /\ p <= n1 + n2}
    /\ cnt = 0 /\ esc = NoBuf /\ unesc = NoBuf
    /\ fmt = NoBuf /\ out = <<>>
    /\ IdlePath /\ IdleIO

NextPos == CallFormatPos \/ CallPrintPos

SpecPos == InitPos /\ [][NextPos]_vars

(***************************************************************************)
(* Properties of escape and unescape.                                      *)
(***************************************************************************)
\* The bytes of t that escape(t, cnt) reads.
Taken(t, n) == SubSeq(t, 1, IF n < 0 \/ n > Len(t) THEN Len(t) ELSE n)

\* Printable ASCII and the characters of the escape table.
InEscapeDomain(s) == \A k \in 1..Len(s) : isprint(s[k]) \/ EscapeInTable(s[k])

\* C1: for every string s of printable ASCII characters and characters of the
\* escape table, unescape(escape(s, -1), -1) is a string equal to s (both
\* calls having obtained their buffer).
C1_RoundTrip ==
    (pc = "roundtrip" /\ cnt = -1 /\ InEscapeDomain(text) /\ unesc.ptr = "heap")
        => /\ CStr(unesc.mem) = text
           /\ Len(esc.mem) = esc.alloc
           /\ Len(unesc.mem) = unesc.alloc

\* C1 witness: backslash, 'n', newline went through escape and unescape.
C1_Witness ==
    /\ pc = "roundtrip" /\ cnt = -1 /\ text = <<92, 110, 10>>
    /\ CStr(esc.mem) = <<92, 92, 110, 92, 110>>
    /\ unesc.ptr = "heap" /\ CStr(unesc.mem) = text

\* unescape as C3 words it: a backslash followed by a recognized escape
\* letter becomes the decoded byte, every other character is copied.
RECURSIVE ClaimedUnescape(_)
ClaimedUnescape(s) ==
    IF s = <<>> THEN <<>>
    ELSE IF s[1] = 92 /\ Len(s) >= 2 /\ (\E k \in 1..Len(escape_names) : escape_names[k] = s[2])
         THEN <<escape_chars[CHOOSE k \in 1..Len(escape_names) : escape_names[k] = s[2]]>>
                  \o ClaimedUnescape(SubSeq(s, 3, Len(s)))
         ELSE <<s[1]>> \o ClaimedUnescape(Tail(s))

\* C3: unescape(text, len) replaces only a backslash followed by a recognized
\* escape letter; every other character, a lone trailing backslash included,
\* is copied verbatim.
C3_CopiesVerbatim ==
    (pc = "unescaped" /\ unesc.ptr = "heap")
        => CStr(unesc.mem) = ClaimedUnescape(Taken(text, cnt))

\* The width C8 gives each byte.
ClaimedWidth(b) ==
    IF \E k \in 1..Len(escape_chars) : escape_chars[k] = b THEN 2
    ELSE IF isprint(b) THEN 1
    ELSE 4

RECURSIVE SumWidth(_)
SumWidth(s) == IF s = <<>> THEN 0 ELSE ClaimedWidth(s[1]) + SumWidth(Tail(s))

\* C8: escape emits 1, 2 or 4 bytes per input byte (4 for bytes 0x80..0xFF in
\* a signed char too), so the fill pass writes exactly the length the first
\* pass computed and never past the len+1 allocation.
C8_FillMatchesCount ==
    (pc = "escaped" /\ esc.ptr = "heap")
        => /\ esc.len = SumWidth(Taken(text, cnt))
           /\ esc.e = esc.len
           /\ Len(esc.mem) <= esc.alloc
           /\ Len(CStr(esc.mem)) = esc.len

(***************************************************************************)
(* Properties of pathjoin.                                                 *)
(***************************************************************************)
\* The accumulator as C4 words it, a null accumulator being NullSeg: after
\* joining args onto start.
RECURSIVE ClaimedJoin(_, _)
ClaimedJoin(start, args) ==
    IF args = <<>> THEN start
    ELSE LET acc == ClaimedJoin(start, SubSeq(args, 1, Len(args) - 1))
             arg == args[Len(args)]
             seg == IF arg = NullSeg THEN <<40, 41>> ELSE arg
         IN IF acc = NullSeg THEN seg
            ELSE acc \o (IF acc = <<>> \/ acc[Len(acc)] # SEP THEN <<SEP>> ELSE <<>>)
                     \o (IF seg # <<>> /\ seg[1] = SEP THEN Tail(seg) ELSE seg)

PathString(p) == IF p.ptr = "NULL" THEN NullSeg ELSE CStr(p.mem)

\* C4: each pathjoin step onto a non-null accumulator yields accumulator +
\* (one '/' if the accumulator is empty or does not end in '/') + (the segment
\* less one leading '/'), a null accumulator takes the first segment verbatim
\* and a NULL segment reads "()"; so ["a","b","c"] from a null accumulator
\* gives "a/b/c", ["a/","/b"] gives "a/b" and ["a",NULL] gives "a/()".
C4_JoinedPath ==
    ~allocFail =>
        /\ PathString(path) = ClaimedJoin(PathString(path0), SubSeq(segs, 1, iseg))
        /\ path.ptr = "heap" => Len(path.mem) = path.alloc
        /\ (pc = "returned" /\ path0 = NullPtr) =>
              /\ ret = 0
              /\ segs = <<<<97>>, <<98>>, <<99>>>> => CStr(path.mem) = <<97, SEP, 98, SEP, 99>>
              /\ segs = <<<<97, SEP>>, <<SEP, 98>>>> => CStr(path.mem) = <<97, SEP, 98>>
              /\ segs = <<<<97>>, NullSeg>> => CStr(path.mem) = <<97, SEP, 40, 41>>

\* C4 witness: "a/" and "/b" were joined onto a null accumulator.
C4_Witness ==
    /\ pc = "returned" /\ ret = 0 /\ path0 = NullPtr
    /\ segs = <<<<97, SEP>>, <<SEP, 98>>>>
    /\ CStr(path.mem) = <<97, SEP, 98>>

\* C5: when an allocation fails at any segment, pathjoin returns -1 with the
\* accumulator released and the caller's *path null, and processes no later
\* segment.
C5_AllocFailure ==
    /\ allocFail =>
          /\ pc = "returned" /\ ret = -1
          /\ path = NullPtr /\ heapLive = 0
          /\ iseg < Len(segs)
    /\ (pc = "returned" /\ ret = -1) => allocFail

\* C5 witness: the realloc for the second of three segments was refused.
C5_Witness ==
    /\ allocFail /\ pc = "returned" /\ ret = -1
    /\ iseg = 1 /\ Len(segs) = 3 /\ path0 = NullPtr /\ path = NullPtr

(***************************************************************************)
(* Properties of fread_file_lim, read_file and the memstream pair.         *)
(***************************************************************************)
\* C2: read_file on a file longer than MAX_READ_LEN returns null, on a file
\* of exactly MAX_READ_LEN bytes (that it could open and read) returns the
\* full content, and never returns a truncated prefix of a longer file.
C2_ReadFileCap ==
    (caller = "read_file" /\ pc = "rf_done") =>
        /\ fileLen > MAX_READ_LEN => rfres.ptr = "NULL"
        /\ (fileLen = MAX_READ_LEN /\ flres.ptr = "heap") =>
              (rfres.ptr = "heap" /\ rfres.len = fileLen)
        /\ rfres.ptr = "heap" => rfres.len = fileLen

\* C6: whenever close_memstream returns 0 the handle's buf and size hold the
\* complete written content, and whenever closing the underlying stream fails
\* it returns -1 with buf released and size 0; on both variants.
C6_CloseMemstream ==
    (caller = "memstream" /\ pc = "ms_done" /\ ms.stream = "closed") =>
        /\ msret = 0 =>
              /\ ms.size = written
              /\ written > 0 => (ms.buf.ptr = "heap" /\ ms.buf.len = written)
        /\ msret = -1 => (ms.buf = NullPtr /\ ms.size = 0)

\* C10: in every iteration of the fread_file_lim loop, size + requested <=
\* max_len and size + requested <= alloc - 1, so the bytes read never exceed
\* max_len, every read and the final NUL at buf[size] stay inside the
\* allocated buffer, and the loop ends once a read is short or the request
\* is 0.
C10_ReadWithinCap ==
    alloc > 0 =>
        /\ sizeBefore + requested <= max_len
        /\ sizeBefore + requested <= alloc - 1
        /\ count <= requested
        /\ size <= max_len
        /\ size <= alloc - 1
        /\ flres.ptr = "heap" =>
              (flres.len = size /\ flres.nul = size /\ flres.nul <= flres.alloc - 1)
        /\ pc = "fl_loop" => (count = requested /\ requested > 0)
        /\ (pc = "fl_ret" /\ flres.ptr = "heap") => (count # requested \/ requested = 0)

\* C10 witness: a stream longer than max_len was read up to max_len, the
\* last request having been capped to 0 bytes by max_len.
C10_Witness ==
    /\ caller = "fread_file_lim" /\ pc = "fl_ret" /\ flres.ptr = "heap"
    /\ max_len > 0 /\ fileLen > max_len /\ flres.len = max_len
    /\ sizeBefore = max_len /\ requested = 0 /\ alloc - sizeBefore - 1 > 0

(***************************************************************************)
(* Properties of format_pos and print_pos.                                 *)
(***************************************************************************)
\* C7: format_pos returns null if any intermediate allocation fails (the
\* buffer of either escape call or the final asprintf), for every text and
\* offset, without writing through an unallocated buffer; print_pos then
\* emits nothing.
C7_NullOnAllocFailure ==
    (pc \in {"fp_returned", "fp_crashed", "pp_returned", "pp_crashed"} /\ fmt.fail # "none") =>
        /\ fmt.ptr = "NULL"
        /\ fmt.ub # "nullwrite"
        /\ out = <<>>

\* escape as the spec words it: the byte itself, a backslash and a letter, or
\* a backslash and the three octal digits of the byte.
RECURSIVE ClaimedEscape(_)
ClaimedEscape(s) ==
    IF s = <<>> THEN <<>>
    ELSE LET b == s[1]
         IN (IF \E k \in 1..Len(escape_chars) : escape_chars[k] = b
             THEN <<92, escape_names[CHOOSE k \in 1..Len(escape_chars) : escape_chars[k] = b]>>
             ELSE IF isprint(b) THEN <<b>>
             ELSE <<92, 48 + (b \div 64), 48 + ((b \div 8) % 8), 48 + (b % 8)>>)
            \o ClaimedEscape(Tail(s))

\* The line C9 describes: each side with its marker is padded with spaces to
\* 28 columns when its escaped text is shorter than 28 characters.
ClaimedLayout(t, p) ==
    LET l == ClaimedEscape(SubSeq(t, p - Min(28, p) + 1, p))
        r == ClaimedEscape(SubSeq(t, p + 1, Min(Len(t), p + 28)))
        lside == IF Len(l) < 28 THEN Spaces(28 - Len(l) - 1) \o <<60>> \o l ELSE <<60>> \o l
        rside == IF Len(r) < 28 THEN r \o <<62>> \o Spaces(28 - Len(r) - 1) ELSE r \o <<62>>
    IN lside \o <<124, 61, 124>> \o rside \o <<10>>

\* C9: for every text and offset 0 <= pos <= strlen(text), format_pos (having
\* obtained its memory) reads only bytes inside the buffer, from min(28, pos)
\* bytes before pos, and returns '<' + left + "|=|" + right + '>' + newline,
\* a side shorter than 28 characters padded to 28 columns.
C9_Layout ==
    (pc \in {"fp_returned", "fp_crashed"} /\ fmt.fail = "none") =>
        /\ pc = "fp_returned"
        /\ fmt.ub = "none"
        /\ fmt.from >= 0 /\ fmt.from = pos - Min(28, pos)
        /\ fmt.ptr = "heap"
        /\ fmt.str = ClaimedLayout(text, pos)

\* C9 on the builds and texts that keep escape inside its buffer.
LayoutWhereEscapeIsSound ==
    (~charSigned \/ \A k \in 1..Len(text) : text[k] < 128) => C9_Layout

====
